---- MODULE Spec2Model ----
(***************************************************************************)
(* Model of call_mcp_remote.py: one request served by handle_query.        *)
(*                                                                         *)
(* Strings that the program formats or parses (tool names, flat tool       *)
(* identifiers, model text) are sequences of one-character strings, so     *)
(* that the f-string of the catalog builder and the regular expression of  *)
(* the dispatcher are computed character by character.                     *)
(***************************************************************************)
EXTENDS Integers, Sequences, FiniteSets, TLC

(* ------------------------------ bounds -------------------------------- *)

\* number of entries of mcp_config.mcpServers
NumProviders == 2
\* cap on the number of tool calls the model requests in one request, over
\* all its responses
MaxToolCalls == 2

(* ------------------------ environment's inputs ------------------------ *)

\* what server_config may hold under the key 'type' ("missing": no such key)
ConfigTypes == {"sse", "stdio", "missing"}

\* local tool names a provider may expose
NameX == <<"x">>
NameD == <<"1", "_", "x">>
NameNL == <<"a", "\n", "b">>

\* response.tools of session.list_tools()
ToolLists == {<<NameX>>, <<NameD, NameNL>>}

\* message.content of a model response (None and "" are both falsy)
Contents == {<<>>, <<"o", "k">>}

\* tool_call.function.arguments as sent by the model: a JSON text, and a
\* text that is not JSON
ArgsCats == "{\"q\":\"cats\"}"
ArgsBroken == "{"

\* a name the model may echo that is not of the derived form
NameForeign == <<"f", "o", "o">>

(* --------------------------- string helpers --------------------------- *)

IsDigit(c) == c \in {"0", "1", "2", "3", "4", "5", "6", "7", "8", "9"}

DigitOf(c) ==
  CASE c = "0" -> 0 [] c = "1" -> 1 [] c = "2" -> 2 [] c = "3" -> 3
    [] c = "4" -> 4 [] c = "5" -> 5 [] c = "6" -> 6 [] c = "7" -> 7
    [] c = "8" -> 8 [] c = "9" -> 9

CharOf(d) == <<"0", "1", "2", "3", "4", "5", "6", "7", "8", "9">>[d + 1]

\* str(server_idx) inside the f-string
RECURSIVE IntToStr(_)
IntToStr(n) == IF n < 10 THEN <<CharOf(n)>>
               ELSE IntToStr(n \div 10) \o <<CharOf(n % 10)>>

\* int(server_index)
RECURSIVE StrToInt(_)
StrToInt(s) == IF s = <<>> THEN 0
               ELSE 10 * StrToInt(SubSeq(s, 1, Len(s) - 1)) + DigitOf(s[Len(s)])

ServerPrefix == <<"s", "e", "r", "v", "e", "r", "_">>

\* f"server_{server_idx}_{tool.name}"
FlatName(server_idx, name) == ServerPrefix \o IntToStr(server_idx) \o <<"_">> \o name

\* \d+ : length of the longest run of digits in s from position from
RECURSIVE DigitRun(_, _)
DigitRun(s, from) ==
  IF from > Len(s) \/ ~IsDigit(s[from]) THEN 0 ELSE 1 + DigitRun(s, from + 1)

\* '.' of the pattern: any character but a line break
IsDot(c) == c # "\n"

\* .+ : length of the longest run of '.' characters in s from position from
RECURSIVE DotRun(_, _)
DotRun(s, from) ==
  IF from > Len(s) \/ ~IsDot(s[from]) THEN 0 ELSE 1 + DotRun(s, from + 1)

\* re.match(r"server_(\d+)_(.+)", s): anchored at the start only. \d+ is
\* greedy and must be followed by '_', which is no digit, so it takes the
\* whole digit run; .+ is greedy and takes every character up to the first
\* line break, at least one.
ReMatch(s) ==
  LET p == Len(ServerPrefix)
      d == DigitRun(s, p + 1)
      r == DotRun(s, p + d + 2)
  IN  IF /\ Len(s) >= p
         /\ SubSeq(s, 1, p) = ServerPrefix
         /\ d >= 1
         /\ Len(s) >= p + d + 1
         /\ s[p + d + 1] = "_"
         /\ r >= 1
      THEN [ok |-> TRUE,
            server_index |-> SubSeq(s, p + 1, p + d),
            tool_name |-> SubSeq(s, p + d + 2, p + d + 1 + r)]
      ELSE [ok |-> FALSE, server_index |-> <<>>, tool_name |-> <<>>]

\* json.loads(tool_call.function.arguments): the parsed object, or an error
JsonLoads(raw) == IF raw = ArgsCats
                  THEN [ok |-> TRUE, value |-> [q |-> "cats"]]
                  ELSE [ok |-> FALSE, value |-> [q |-> ""]]

\* json.dumps(tool_args): Python's default separators put a space after ':'
JsonDumps(obj) == IF obj = [q |-> "cats"] THEN "{\"q\": \"cats\"}" ELSE "{}"

\* "".join(final_text)
RECURSIVE Join(_)
Join(parts) == IF parts = <<>> THEN <<>> ELSE Head(parts) \o Join(Tail(parts))

(* ------------------------------- state -------------------------------- *)

VARIABLES
  config,          \* mcp_config.mcpServers: the 'type' of each entry, in dict order
  pc,              \* where handle_query stands
  idx,             \* position of the for loop of connect_to_sse_servers
  sessions,        \* keys of self.sessions, in insertion order
  exit_stacks,     \* keys of self._exit_stacks, in insertion order
  settion_tools,   \* self.settion_tools: <<[server, tools]>>, in insertion order
  opened,          \* providers whose sse_client transport was entered
  attempts,        \* how the loop body ended for each entry passed so far
  messages,        \* process_query: the transcript
  available_tools, \* process_query: the catalog handed to the model
  request,         \* process_query: messages and tools of the last chat.completions.create call
  message,         \* process_query: message.tool_calls of the last response
  message_content, \* process_query: message.content of the last response
  tc,              \* process_query: position of the for loop over message.tool_calls
  call,            \* process_query: server_name, tool_name, tool_args of the call_tool in flight
  tool_results,    \* process_query: tool_results
  final_text,      \* process_query: final_text
  modelCalls,      \* number of client.chat.completions.create calls made
  toolCalls,       \* number of call_tool invocations made
  raised,          \* the exception that ended the request ("" if none)
  status,          \* HTTP status sent to the caller (0: no answer yet)
  result,          \* body["response"] of a successful answer
  ck,              \* position of the for loop of cleanup
  closeLog,        \* the exit_stack.aclose() calls made, in order, with their outcome
  cleanupRuns,     \* number of times cleanup was entered
  cleanupRaised    \* an exception left cleanup

vars == <<config, pc, idx, sessions, exit_stacks, settion_tools, opened, attempts,
          messages, available_tools, request, message, message_content, tc,
          call, tool_results, final_text, modelCalls, toolCalls, raised, status, result, ck,
          closeLog, cleanupRuns, cleanupRaised>>

connVars == <<sessions, exit_stacks, settion_tools, opened, attempts>>
localVars == <<messages, available_tools, request, message, message_content, tc,
               call, tool_results, final_text>>
countVars == <<modelCalls, toolCalls>>
answerVars == <<raised, status, result>>
cleanVars == <<ck, closeLog, cleanupRuns, cleanupRaised>>

NoRequest == [messages |-> <<>>, tools |-> <<>>]

NoCall == [flat |-> <<>>, server |-> 0, tool_name |-> <<>>, tool_args |-> [q |-> ""]]

\* MCPClient.__init__ and the entry of handle_query
Init ==
  /\ config \in [1..NumProviders -> ConfigTypes]
  /\ pc = "connect"
  /\ idx = 1
  /\ sessions = <<>>
  /\ exit_stacks = <<>>
  /\ settion_tools = <<>>
  /\ opened = {}
  /\ attempts = <<>>
  /\ messages = <<>>
  /\ available_tools = <<>>
  /\ request = NoRequest
  /\ message = <<>>
  /\ message_content = <<>>
  /\ tc = 0
  /\ call = NoCall
  /\ tool_results = <<>>
  /\ final_text = <<>>
  /\ modelCalls = 0
  /\ toolCalls = 0
  /\ raised = ""
  /\ status = 0
  /\ result = <<>>
  /\ ck = 0
  /\ closeLog = <<>>
  /\ cleanupRuns = 0
  /\ cleanupRaised = FALSE

(* ------------------------ handle_query's handlers --------------------- *)

\* an exception: its kind, and its status_code if it is an HTTPException (else 0)
Exc(kind, http) == [kind |-> kind, http |-> http]

\* except asyncio.TimeoutError: raise HTTPException(status_code=504)
InnerHandler(exc) == IF exc.kind = "Timeout" THEN Exc("Timeout", 504) ELSE exc

\* except Exception as e: raise HTTPException(status_code=500, detail=str(e)).
\* HTTPException is an Exception, so the handler also takes the 400 and 504
\* raised inside the try block.
OuterHandler(exc) == Exc(exc.kind, 500)

\* cleanup called at the end of the try block instead of in a finally clause
AfterTryNoFinally(kind) == IF kind = "ok" THEN "cleanup" ELSE "done"

\* finally: await client.cleanup()
AfterTry(kind) == "cleanup"

\* the request leaves the try block of handle_query with exception exc
RequestFails(exc) ==
  /\ raised' = exc.kind
  /\ status' = OuterHandler(InnerHandler(exc)).http
  /\ pc' = AfterTry(exc.kind)
  /\ UNCHANGED <<result>>

\* the return statement of process_query reaches the caller
RequestSucceeds(text) ==
  /\ result' = text
  /\ status' = 200
  /\ pc' = AfterTry("ok")
  /\ UNCHANGED <<raised>>

(* ----------------------- connect_to_sse_servers ----------------------- *)

Connecting == pc = "connect" /\ idx <= Len(config)

\* server_config['type'] on an entry without that key: the KeyError is raised
\* outside the try block of the loop, leaves connect_to_sse_servers and is
\* taken by handle_query
ConnectTypeMissing ==
  /\ Connecting
  /\ config[idx] = "missing"
  /\ RequestFails(Exc("KeyError", 0))
  /\ attempts' = Append(attempts, "no_type")
  /\ UNCHANGED <<config, idx, sessions, exit_stacks, settion_tools, opened,
                 localVars, countVars, cleanVars>>

\* an entry of another type is passed over
ConnectSkip ==
  /\ Connecting
  /\ config[idx] = "stdio"
  /\ idx' = idx + 1
  /\ attempts' = Append(attempts, "not_sse")
  /\ UNCHANGED <<config, pc, sessions, exit_stacks, settion_tools, opened,
                 localVars, countVars, answerVars, cleanVars>>

\* the attempt fails before the session is stored: entering sse_client,
\* entering ClientSession, or session.initialize() raises; the local
\* exit_stack is dropped without being closed
ConnectFails(step) ==
  /\ Connecting
  /\ config[idx] = "sse"
  /\ opened' = IF step = "transport" THEN opened ELSE opened \cup {idx}
  /\ attempts' = Append(attempts, step)
  /\ idx' = idx + 1
  /\ UNCHANGED <<config, pc, sessions, exit_stacks, settion_tools, localVars,
                 countVars, answerVars, cleanVars>>

\* initialize() succeeded, session and exit_stack are stored, then
\* session.list_tools() raises
ConnectListFails ==
  /\ Connecting
  /\ config[idx] = "sse"
  /\ opened' = opened \cup {idx}
  /\ sessions' = Append(sessions, idx)
  /\ exit_stacks' = Append(exit_stacks, idx)
  /\ attempts' = Append(attempts, "list_tools")
  /\ idx' = idx + 1
  /\ UNCHANGED <<config, pc, settion_tools, localVars, countVars, answerVars, cleanVars>>

\* the whole attempt succeeds and list_tools() answers tools
ConnectSucceeds(tools) ==
  /\ Connecting
  /\ config[idx] = "sse"
  /\ opened' = opened \cup {idx}
  /\ sessions' = Append(sessions, idx)
  /\ exit_stacks' = Append(exit_stacks, idx)
  /\ settion_tools' = Append(settion_tools, [server |-> idx, tools |-> tools])
  /\ attempts' = Append(attempts, "ok")
  /\ idx' = idx + 1
  /\ UNCHANGED <<config, pc, localVars, countVars, answerVars, cleanVars>>

\* an await of the attempt never returns: connect_to_sse_servers is awaited
\* before asyncio.wait_for is entered, so no timer runs
ConnectNeverReturns ==
  /\ Connecting
  /\ config[idx] = "sse"
  /\ pc' = "connect_hung"
  /\ UNCHANGED <<config, idx, connVars, localVars, countVars, answerVars, cleanVars>>

(* ---------------------------- process_query --------------------------- *)

\* the entries that enumerate(self.settion_tools.items()) contributes from
\* position k on: one per tool, named with the 0-based position of its server
RECURSIVE CatalogFrom(_, _)
CatalogFrom(st, k) ==
  IF k > Len(st) THEN <<>>
  ELSE [j \in 1..Len(st[k].tools) |-> [name |-> FlatName(k - 1, st[k].tools[j])]]
       \o CatalogFrom(st, k + 1)

\* available_tools (description and parameters are copied unread)
BuildCatalog(st) == CatalogFrom(st, 1)

UserEntry == [role |-> "user", content |-> "query", tool_call_id |-> 0,
              name |-> <<>>, arguments |-> ""]

\* the entry check, the catalog and the first model call, which is made
\* without an await in between
ProcessQueryEntry ==
  /\ pc = "connect"
  /\ idx > Len(config)
  /\ IF sessions = <<>>
     THEN /\ RequestFails(Exc("EmptyCatalog", 400))
          /\ UNCHANGED <<localVars, countVars>>
     ELSE /\ messages' = <<UserEntry>>
          /\ available_tools' = BuildCatalog(settion_tools)
          /\ request' = [messages |-> messages', tools |-> available_tools']
          /\ modelCalls' = 1
          /\ pc' = "model"
          /\ UNCHANGED <<message, message_content, tc, call, tool_results,
                         final_text, toolCalls, answerVars>>
  /\ UNCHANGED <<config, idx, connVars, cleanVars>>

\* the tool calls the model may put into a response: a call of any catalog
\* name, of a name that is not of the derived form, of a derived name whose
\* position is one past the last connected server, and a call whose
\* arguments are not JSON (they are parsed before the name is looked at)
ToolCallRequests ==
  {[name |-> available_tools[k].name, arguments |-> ArgsCats] :
      k \in 1..Len(available_tools)}
    \cup {[name |-> NameForeign, arguments |-> ArgsCats],
          [name |-> FlatName(Len(settion_tools), NameX), arguments |-> ArgsCats],
          [name |-> NameForeign, arguments |-> ArgsBroken]}

\* message.tool_calls of a model response, within what is left of the cap
ToolCallBatches ==
  UNION {[1..n -> ToolCallRequests] : n \in 0..(MaxToolCalls - toolCalls)}

\* the ids are issued by the model, distinct within the response
WithIds(batch) ==
  [j \in 1..Len(batch) |-> [id |-> 10 * modelCalls + j, name |-> batch[j].name,
                            arguments |-> batch[j].arguments]]

\* the blocking call client.chat.completions.create returns. The content of
\* the first response is dropped (line 123 is commented out); the content of
\* every later response is appended when it is not empty. The while loop
\* then either starts the batch or ends with the return.
ModelReturns(content, batch) ==
  /\ pc = "model"
  /\ message' = WithIds(batch)
  /\ message_content' = content
  /\ final_text' = IF modelCalls > 1 /\ content # <<>>
                   THEN Append(final_text, content) ELSE final_text
  /\ IF batch # <<>>
     THEN /\ pc' = "dispatch"
          /\ tc' = 1
          /\ UNCHANGED <<answerVars>>
     ELSE /\ RequestSucceeds(Join(final_text'))
          /\ UNCHANGED <<tc>>
  /\ UNCHANGED <<config, idx, connVars, cleanVars, messages, available_tools,
                 request, call, tool_results, countVars>>

\* a failed model call that is logged and made again instead of being raised
ModelRaisesRetried ==
  /\ pc = "model"
  /\ modelCalls <= MaxToolCalls
  /\ raised' = "BackendError"
  /\ modelCalls' = modelCalls + 1
  /\ UNCHANGED <<config, pc, idx, connVars, cleanVars, localVars, toolCalls,
                 status, result>>

\* the call raises: the first call is wrapped into HTTPException(500) by the
\* except clause of lines 111-116, a later call (line 172) is not in a try
ModelRaises ==
  /\ pc = "model"
  /\ RequestFails(Exc("BackendError", IF modelCalls = 1 THEN 500 ELSE 0))
  /\ UNCHANGED <<config, idx, connVars, cleanVars, localVars, countVars>>

\* the call never returns: it is a synchronous call made on the event loop's
\* thread, so while it blocks nothing else of the process runs, the timer of
\* asyncio.wait_for included
ModelNeverReturns ==
  /\ pc = "model"
  /\ pc' = "model_hung"
  /\ UNCHANGED <<config, idx, connVars, cleanVars, localVars, countVars, answerVars>>

\* keylist = list(self.settion_tools.keys())
KeyList == [k \in 1..Len(settion_tools) |-> settion_tools[k].server]

\* one iteration of the for loop up to the await of call_tool
Dispatch ==
  /\ pc = "dispatch"
  /\ LET tool_call == message[tc]
         tool_args == JsonLoads(tool_call.arguments)
         match == ReMatch(tool_call.name)
         server_index == StrToInt(match.server_index)
     IN  IF ~tool_args.ok
         THEN /\ RequestFails(Exc("JSONDecodeError", 0))
              /\ UNCHANGED <<call, toolCalls>>
         ELSE IF ~match.ok
         THEN /\ RequestFails(Exc("InvalidIdentifier", 400))
              /\ UNCHANGED <<call, toolCalls>>
         ELSE IF server_index >= Len(KeyList)
         THEN /\ RequestFails(Exc("IndexError", 0))
              /\ UNCHANGED <<call, toolCalls>>
         ELSE /\ call' = [flat |-> tool_call.name,
                          server |-> KeyList[server_index + 1],
                          tool_name |-> match.tool_name,
                          tool_args |-> tool_args.value]
              /\ toolCalls' = toolCalls + 1
              /\ pc' = "tool"
              /\ UNCHANGED <<answerVars>>
  /\ UNCHANGED <<config, idx, connVars, cleanVars, messages, available_tools,
                 request, message, message_content, tc, tool_results,
                 final_text, modelCalls>>

\* str(result.content) of a tool result
ToolOutput == "3 results"

\* the assistant entry with the name as the model sent it
AssistantEntryFlat(tool_call, tool_name, tool_args) ==
  [role |-> "assistant", content |-> "", tool_call_id |-> tool_call.id,
   name |-> tool_call.name, arguments |-> JsonDumps(tool_args)]

\* the assistant entry appended for one tool call: its id, the decoded tool
\* name and the arguments serialised again
AssistantEntry(tool_call, tool_name, tool_args) ==
  [role |-> "assistant", content |-> "", tool_call_id |-> tool_call.id,
   name |-> tool_name, arguments |-> JsonDumps(tool_args)]

\* the entry with the tool's entry in front of the assistant's
TranscriptAfterSwapped(msgs, tool_call, tool_name, tool_args, output) ==
  msgs \o << [role |-> "tool", content |-> output, tool_call_id |-> tool_call.id,
              name |-> <<>>, arguments |-> ""],
             AssistantEntry(tool_call, tool_name, tool_args) >>

\* the two messages.append calls that follow a call_tool
TranscriptAfter(msgs, tool_call, tool_name, tool_args, output) ==
  msgs \o << AssistantEntry(tool_call, tool_name, tool_args),
             [role |-> "tool", content |-> output, tool_call_id |-> tool_call.id,
              name |-> <<>>, arguments |-> ""] >>

\* the model asked again after the first call of a batch
BatchDoneEarly(t, calls) == TRUE

\* the for loop over message.tool_calls is exhausted
BatchDone(t, calls) == t >= Len(calls)

\* call_tool returns: the assistant entry and the tool entry of this call are
\* appended; after the last call of the batch the next model call is made
ToolReturns ==
  /\ pc = "tool"
  /\ tool_results' = Append(tool_results, [call |-> call.tool_name, result |-> ToolOutput])
  /\ messages' = TranscriptAfter(messages, message[tc], call.tool_name,
                                 call.tool_args, ToolOutput)
  /\ IF ~BatchDone(tc, message)
     THEN /\ tc' = tc + 1
          /\ pc' = "dispatch"
          /\ UNCHANGED <<modelCalls, request>>
     ELSE /\ modelCalls' = modelCalls + 1
          /\ request' = [messages |-> messages', tools |-> available_tools]
          /\ pc' = "model"
          /\ UNCHANGED <<tc>>
  /\ UNCHANGED <<config, idx, connVars, cleanVars, available_tools, message,
                 message_content, call, final_text, toolCalls, answerVars>>

\* call_tool raises: nothing in process_query catches it
ToolRaises ==
  /\ pc = "tool"
  /\ RequestFails(Exc("ToolError", 0))
  /\ UNCHANGED <<config, idx, connVars, cleanVars, localVars, countVars>>

\* the 300 seconds of asyncio.wait_for elapse while process_query is
\* suspended in its only await, call_tool: process_query is cancelled and
\* wait_for raises asyncio.TimeoutError
WaitForTimeout ==
  /\ pc = "tool"
  /\ RequestFails(Exc("Timeout", 0))
  /\ UNCHANGED <<config, idx, connVars, cleanVars, localVars, countVars>>

(* ------------------------------- cleanup ------------------------------ *)

\* the finally clause of handle_query calls cleanup; the frame of
\* process_query, with its local variables, is gone by then
CleanupEnter ==
  /\ pc = "cleanup"
  /\ cleanupRuns' = cleanupRuns + 1
  /\ ck' = 1
  /\ pc' = "closing"
  /\ messages' = <<>>
  /\ available_tools' = <<>>
  /\ request' = NoRequest
  /\ message' = <<>>
  /\ message_content' = <<>>
  /\ tc' = 0
  /\ call' = NoCall
  /\ tool_results' = <<>>
  /\ final_text' = <<>>
  /\ UNCHANGED <<config, idx, connVars, countVars, answerVars, closeLog, cleanupRaised>>

\* the for loop of cleanup without the try block around aclose()
CloseStepUncaught(k, ok) == [ck |-> k + 1, raised |-> ~ok]

\* what follows one exit_stack.aclose(): 'except Exception' takes a failure
\* of the close and the for loop goes on with the next exit stack
CloseStep(k, ok) == [ck |-> k + 1, raised |-> FALSE]

\* one iteration of the for loop over self._exit_stacks.items()
CleanupClose(ok) ==
  /\ pc = "closing"
  /\ ck <= Len(exit_stacks)
  /\ closeLog' = Append(closeLog, [server |-> exit_stacks[ck], ok |-> ok])
  /\ LET step == CloseStep(ck, ok)
     IN  /\ ck' = step.ck
         /\ cleanupRaised' = step.raised
         /\ pc' = IF step.raised THEN "done" ELSE "closing"
  /\ UNCHANGED <<config, idx, connVars, localVars, countVars, answerVars, cleanupRuns>>

\* self.sessions.clear(); self.settion_tools.clear(); handle_query is left
CleanupEnd ==
  /\ pc = "closing"
  /\ ck > Len(exit_stacks)
  /\ sessions' = <<>>
  /\ settion_tools' = <<>>
  /\ pc' = "done"
  /\ UNCHANGED <<config, idx, exit_stacks, opened, attempts, localVars, countVars,
                 answerVars, cleanVars>>

(* --------------------------- specifications --------------------------- *)

Next ==
  \/ ConnectTypeMissing
  \/ ConnectSkip
  \/ \E step \in {"transport", "session", "initialize"} : ConnectFails(step)
  \/ ConnectListFails
  \/ \E tools \in ToolLists : ConnectSucceeds(tools)
  \/ ConnectNeverReturns
  \/ ProcessQueryEntry
  \/ \E content \in Contents, batch \in ToolCallBatches : ModelReturns(content, batch)
  \/ ModelRaises
  \/ ModelNeverReturns
  \/ Dispatch
  \/ ToolReturns
  \/ ToolRaises
  \/ WaitForTimeout
  \/ CleanupEnter
  \/ \E ok \in BOOLEAN : CleanupClose(ok)
  \/ CleanupEnd

Spec == Init /\ [][Next]_vars

\* every step that is enabled is taken in the end: the event loop runs the
\* handler and the environment answers; a model call that never returns
\* leaves no step enabled
FairSpec == Spec /\ WF_vars(Next)

(* ------------------------------- claims ------------------------------- *)

\* the (position, local name) pair behind each catalog entry, in catalog order
RECURSIVE OriginsFrom(_, _)
OriginsFrom(st, k) ==
  IF k > Len(st) THEN <<>>
  ELSE [j \in 1..Len(st[k].tools) |-> [ordinal |-> k - 1, server |-> st[k].server,
                                       name |-> st[k].tools[j]]]
       \o OriginsFrom(st, k + 1)

Origins == OriginsFrom(settion_tools, 1)

CloseCount(p) == Cardinality({k \in 1..Len(closeLog) : closeLog[k].server = p})

ClosedServers == [k \in 1..Len(closeLog) |-> closeLog[k].server]

Answered == pc \in {"cleanup", "closing", "done"}

\* C1: on every exit path of handle_query cleanup runs exactly once, and
\* every provider whose session was stored in the registry has aclose()
\* invoked exactly once, no other provider has it invoked, and none twice.
CleanupExactlyOnce ==
  /\ cleanupRuns <= 1
  /\ \A p \in 1..NumProviders : CloseCount(p) <= 1
  /\ status # 0 => Answered
  /\ pc # "done" => sessions = exit_stacks
  /\ pc = "done" =>
       /\ status # 0
       /\ cleanupRuns = 1
       /\ \A p \in 1..NumProviders :
            CloseCount(p) = IF \E k \in 1..Len(exit_stacks) : exit_stacks[k] = p
                            THEN 1 ELSE 0

\* C1 witness: a request that ended by the deadline has left handle_query
\* after closing two registered sessions
CleanupAfterTimeout ==
  /\ pc = "done"
  /\ raised = "Timeout"
  /\ Len(exit_stacks) = 2
  /\ Len(closeLog) = 2

\* C2: cleanup never raises; a close that fails is taken for that session
\* alone, and the closes are attempted for every registered session in the
\* order of registration.
CleanupNeverRaises ==
  /\ ~cleanupRaised
  /\ pc = "closing" => ClosedServers = SubSeq(exit_stacks, 1, ck - 1)
  /\ pc = "done" => ClosedServers = exit_stacks

\* C2 witness: the first close failed and the second session was closed all
\* the same
CleanupPastFailedClose ==
  /\ pc = "done"
  /\ Len(closeLog) = 2
  /\ ~closeLog[1].ok
  /\ closeLog[2].ok

\* C3: connect_to_sse_servers never raises: every entry is passed, only
\* providers whose attempt succeeded have tools in the registry, and when
\* none succeeded the registry of tools is empty.
ConnectNeverRaises ==
  /\ raised # "KeyError"
  /\ pc \notin {"connect", "connect_hung"} => Len(attempts) = Len(config)
  /\ \A k \in 1..Len(settion_tools) : attempts[settion_tools[k].server] = "ok"
  /\ (pc \notin {"connect", "connect_hung", "done"} /\ \A p \in 1..Len(attempts) : attempts[p] # "ok")
       => settion_tools = <<>>

\* C4: the session map holds an entry for a provider only if its whole
\* connect attempt, the capability-list fetch included, succeeded.
SessionsOnlyOfConnected ==
  (pc # "connect" \/ idx > Len(config)) =>
     \A k \in 1..Len(sessions) : attempts[sessions[k]] = "ok"

NoSessionStored ==
  /\ Len(attempts) = Len(config)
  /\ \A p \in 1..Len(attempts) : attempts[p] \notin {"ok", "list_tools", "no_type"}

\* C5: when zero providers connect the request fails with the EmptyCatalog
\* kind, the caller gets status 400, and no model call is made.
EmptyCatalogIs400 ==
  (Answered /\ NoSessionStored) =>
     /\ raised = "EmptyCatalog"
     /\ status = 400
     /\ modelCalls = 0

\* C6: an expired deadline is reported with status 504, a model backend
\* failure or a tool failure with status 500.
TimeoutIs504 ==
  /\ raised = "Timeout" => status = 504
  /\ raised \in {"BackendError", "ToolError"} => status = 500

\* C7: a model call that never returns leads to a request that fails with
\* the Timeout kind, after which cleanup has run.
HungModelCallTimesOut ==
  (pc = "model_hung") ~> (raised = "Timeout" /\ cleanupRuns = 1)

\* C8: decoding the name of any catalog entry with the dispatcher's pattern
\* gives back the position and the local tool name it was built from.
FlatNameRoundTrip ==
  Len(available_tools) = Len(Origins) =>
    \A e \in 1..Len(available_tools) :
      LET match == ReMatch(available_tools[e].name)
      IN  /\ match.ok
          /\ StrToInt(match.server_index) = Origins[e].ordinal
          /\ match.tool_name = Origins[e].name

\* C9: the names of the catalog are pairwise distinct, a call that echoes a
\* catalog name is dispatched, and it is dispatched to the session of the
\* provider behind that entry with that provider's local tool name.
CatalogRoutes ==
  Len(available_tools) = Len(Origins) =>
    /\ \A a, b \in 1..Len(available_tools) :
         a # b => available_tools[a].name # available_tools[b].name
    /\ \A e \in 1..Len(available_tools) :
         /\ (pc = "tool" /\ call.flat = available_tools[e].name) =>
               /\ call.server = Origins[e].server
               /\ call.tool_name = Origins[e].name
         /\ (pc = "cleanup" /\ raised \in {"InvalidIdentifier", "IndexError"}) =>
               message[tc].name # available_tools[e].name

\* the call at which the for loop stands names no tool of the catalog's form:
\* its arguments parse, and its name does not match the pattern or carries a
\* position past the connected servers
InvalidEcho ==
  /\ pc = "cleanup"
  /\ tc \in 1..Len(message)
  /\ JsonLoads(message[tc].arguments).ok
  /\ LET match == ReMatch(message[tc].name)
     IN  \/ ~match.ok
         \/ StrToInt(match.server_index) >= Len(settion_tools)

\* C10: a tool call whose name does not match the pattern, or whose position
\* is out of range, fails the request with the InvalidIdentifier kind and
\* status 400, and no tool is invoked for it.
InvalidIdentifierIs400 ==
  InvalidEcho =>
     /\ raised = "InvalidIdentifier"
     /\ status = 400
     /\ toolCalls = Len(tool_results)

InQuery == pc \in {"model", "model_hung", "dispatch", "tool"}

\* C11: with one connected provider, a first response that requests one call
\* of a catalog name and a second response without tool calls give one tool
\* invocation, on that provider, with the local tool name and the parsed
\* arguments, two model calls, and the second response's text as the result.
ToolRoundEndToEnd ==
  (/\ pc = "cleanup"
   /\ status = 200
   /\ Len(sessions) = 1
   /\ Len(tool_results) = 1) =>
     /\ toolCalls = 1
     /\ modelCalls = 2
     /\ result = message_content
     /\ call.server = sessions[1]
     /\ call.tool_args = JsonLoads(ArgsCats).value
     /\ \A e \in 1..Len(available_tools) :
          available_tools[e].name = call.flat => call.tool_name = Origins[e].name

IsPrefix(a, b) == Len(a) <= Len(b) /\ SubSeq(b, 1, Len(a)) = a

\* C12: every tool entry of the transcript directly follows an assistant
\* entry with the same tool-call id, and while the request is in
\* process_query the transcript only grows at its end.
TranscriptWellFormed ==
  /\ [](\A k \in 1..Len(messages) :
          messages[k].role = "tool" =>
             /\ k > 1
             /\ messages[k - 1].role = "assistant"
             /\ messages[k - 1].tool_call_id = messages[k].tool_call_id)
  /\ [][pc' \in {"model", "model_hung", "dispatch", "tool", "cleanup"}
          => IsPrefix(messages, messages')]_vars

\* C12 witness: the transcript holds the entries of two tool calls
TranscriptOfTwoCalls ==
  /\ Len(messages) = 5
  /\ messages[3].role = "tool"
  /\ messages[5].role = "tool"

\* C13: a failed model call ends the request with status 500, and no model
\* call and no tool call is made after it.
ModelFailureAborts ==
  /\ [](raised = "BackendError" => (status = 500 /\ Answered))
  /\ [][raised = "BackendError" =>
          (modelCalls' = modelCalls /\ toolCalls' = toolCalls)]_vars

\* C13 witness: the model call made after a tool batch failed and the
\* request has been answered
ModelFailedAfterBatch ==
  /\ pc = "done"
  /\ raised = "BackendError"
  /\ modelCalls = 2
  /\ toolCalls = 1

\* C14: the result of a successful request is the text of the response
\* that has no tool calls, the first response included, and nothing else.
ResultIsFinalContent ==
  (pc = "cleanup" /\ status = 200) => result = message_content

\* C15: a tool call that fails does not end the request.
ToolFailureDoesNotAbort == raised # "ToolError"

\* C16 as stated: while a batch is being executed, the transcript holds an
\* assistant entry for every tool call of the response.
AssistantEntryBeforeDispatch ==
  pc \in {"dispatch", "tool"} =>
    \A j \in 1..Len(message) :
      \E k \in 1..Len(messages) :
        /\ messages[k].role = "assistant"
        /\ messages[k].tool_call_id = message[j].id

\* C16 amended: while a batch is being executed, the transcript ends with
\* one assistant entry and one tool entry for each call that has returned,
\* in the order of the calls; the assistant entry holds the id, the decoded
\* local name and the arguments serialised again; the calls that have not
\* returned have no entry.
AssistantEntryAfterCall ==
  pc \in {"dispatch", "tool"} =>
    LET base == Len(messages) - 2 * (tc - 1)
    IN  /\ base >= 1
        /\ \A j \in 1..(tc - 1) :
             /\ messages[base + 2 * j - 1] =
                  [role |-> "assistant", content |-> "",
                   tool_call_id |-> message[j].id,
                   name |-> ReMatch(message[j].name).tool_name,
                   arguments |-> JsonDumps(JsonLoads(message[j].arguments).value)]
             /\ messages[base + 2 * j].role = "tool"
             /\ messages[base + 2 * j].tool_call_id = message[j].id
        /\ \A j \in tc..Len(message) :
             \A k \in 1..Len(messages) : messages[k].tool_call_id # message[j].id

\* C16 witness: the second call of a batch is in flight, the first has its
\* two entries
SecondCallInFlight ==
  /\ pc = "tool"
  /\ tc = 2
  /\ Len(messages) = 3

\* C17: a connect attempt that never returns leads to a request that fails
\* with the Timeout kind.
HungConnectTimesOut == (pc = "connect_hung") ~> (raised = "Timeout")

\* C18: the calls of a batch are dispatched one at a time in the order of
\* the response, the tool entry of a call is in the transcript before the
\* next call is dispatched, and the model is asked again only after the last
\* call, with the whole transcript and the catalog of the first model call.
BatchInOrder ==
  /\ (pc \in {"model", "model_hung"}) =>
        /\ request = [messages |-> messages, tools |-> available_tools]
        /\ available_tools = BuildCatalog(settion_tools)
        /\ Len(messages) = 1 + 2 * toolCalls
        /\ modelCalls > 1 => tc = Len(message)
  /\ (pc \in {"dispatch", "tool"}) =>
        LET base == Len(messages) - 2 * (tc - 1)
        IN  /\ request.messages = SubSeq(messages, 1, base)
            /\ request.tools = available_tools
            /\ \A j \in 1..(tc - 1) :
                 /\ messages[base + 2 * j].role = "tool"
                 /\ messages[base + 2 * j].tool_call_id = message[j].id
  /\ pc = "dispatch" => toolCalls = Len(tool_results)
  /\ pc = "tool" =>
        /\ toolCalls = Len(tool_results) + 1
        /\ call.flat = message[tc].name

\* C18 witness: the model is asked again after a batch of two calls
ModelAskedAfterBatchOfTwo ==
  /\ pc = "model"
  /\ modelCalls = 2
  /\ Len(message) = 2
  /\ Len(messages) = 5

\* C19: when the request has ended, every transport that was opened has
\* been closed.
NoTransportLeak ==
  pc = "done" => \A p \in opened : CloseCount(p) >= 1

\* C20: a model call is never made with an empty catalog.
CatalogNeverEmpty ==
  pc \in {"model", "model_hung"} => Len(request.tools) >= 1

====
